---- MODULE Spec2Model ----
(***************************************************************************)
(* Model of screensaver.turnoff (screensaver.py): the method catalogs,     *)
(* the command executor strategies, the TurnOffDialog session (onInit,     *)
(* resume, exit) and the TurnOffMonitor callback.                          *)
(*                                                                         *)
(* Representation: Python lists are 1-based TLA+ sequences; positional     *)
(* argument lists are sequences of strings; keyword arguments are          *)
(* sequences of "key=value" strings; stored index settings are sequences   *)
(* of characters so that int() is a real parse.  Python None is the record *)
(* None for object-valued attributes and the string "None" for the         *)
(* string-valued ones.                                                     *)
(***************************************************************************)
EXTENDS Integers, Sequences, FiniteSets, TLC

\* How many times the host may deliver the deactivation event in one run.
MaxFires == 2

(***************************************************************************)
(* Action registry                                                         *)
(***************************************************************************)
Entry(n, f, off, on) == [name |-> n, function |-> f, args_off |-> off, args_on |-> on]

\* The first entry of DISPLAY_METHODS.
DisplayDoNothing ==
  Entry("do-nothing", "log",
        <<"2", "Do nothing to power off display">>,
        <<"2", "Do nothing to power back on display">>)

\* The entries of DISPLAY_METHODS after the first, in order.
DisplayOthers ==
  << Entry("cec-builtin", "run_builtin", <<"CECStandby">>, <<"CECActivateSource">>),
     Entry("no-signal-rpi", "run_command",
           <<"vcgencmd", "display_power", "0">>, <<"vcgencmd", "display_power", "1">>),
     Entry("dpms-builtin", "run_builtin", <<"ToggleDPMS">>, <<"ToggleDPMS">>),
     Entry("dpms-xset", "run_command",
           <<"xset", "dpms", "force", "off">>, <<"xset", "dpms", "force", "on">>),
     Entry("dpms-vbetool", "run_command",
           <<"vbetool", "dpms", "off">>, <<"vbetool", "dpms", "on">>),
     Entry("dpms-xrandr", "run_command",
           <<"xrandr", "--output CRT-0", "off">>, <<"xrandr", "--output CRT-0", "on">>),
     Entry("cec-android", "run_command",
           <<"su", "-c", "echo 0 >/sys/devices/virtual/graphics/fb0/cec">>,
           <<"su", "-c", "echo 1 >/sys/devices/virtual/graphics/fb0/cec">>),
     Entry("backlight-rpi", "run_command",
           <<"su", "-c", "echo 1 >/sys/class/backlight/rpi_backlight/bl_power">>,
           <<"su", "-c", "echo 0 >/sys/class/backlight/rpi_backlight/bl_power">>),
     Entry("backlight-odroid-c2", "run_command",
           <<"su", "-c", "echo 0 >/sys/class/amhdmitx/amhdmitx0/phy">>,
           <<"su", "-c", "echo 1 >/sys/class/amhdmitx/amhdmitx0/phy">>) >>

\* A catalog whose do-nothing entry has been moved off position 0.
DISPLAY_METHODS_Reordered == DisplayOthers \o << DisplayDoNothing >>

DISPLAY_METHODS == << DisplayDoNothing >> \o DisplayOthers

PowerEntry(n, f, kw) == [name |-> n, function |-> f, kwargs_off |-> kw]

POWER_METHODS ==
  << PowerEntry("do-nothing", "log", <<"level=2", "msg=Do nothing to power off system">>),
     PowerEntry("suspend-builtin", "jsonrpc", <<"method=System.Suspend">>),
     PowerEntry("hibernate-builtin", "jsonrpc", <<"method=System.Hibernate">>),
     PowerEntry("quit-builtin", "jsonrpc", <<"method=Application.Quit">>),
     PowerEntry("shutdown-builtin", "jsonrpc", <<"method=System.Shutdown">>),
     PowerEntry("reboot-builtin", "jsonrpc", <<"method=System.Reboot">>),
     PowerEntry("powerdown-builtin", "jsonrpc", <<"method=System.Powerdown">>) >>

None == [name |-> "None"]

(***************************************************************************)
(* Python primitives used by onInit                                        *)
(***************************************************************************)
DigitChars == {"0", "1", "2", "3", "4", "5", "6", "7", "8", "9"}

DigitVal(c) ==
  CASE c = "0" -> 0 [] c = "1" -> 1 [] c = "2" -> 2 [] c = "3" -> 3 [] c = "4" -> 4
    [] c = "5" -> 5 [] c = "6" -> 6 [] c = "7" -> 7 [] c = "8" -> 8 [] c = "9" -> 9

RECURSIVE DigitsVal(_)
DigitsVal(s) ==
  IF s = <<>> THEN 0 ELSE 10 * DigitsVal(SubSeq(s, 1, Len(s) - 1)) + DigitVal(s[Len(s)])

IsDigits(s) == Len(s) > 0 /\ \A k \in 1..Len(s) : s[k] \in DigitChars

\* int(text): a decimal literal with an optional sign, ValueError otherwise.
int(s) ==
  IF IsDigits(s) THEN [ok |-> TRUE, val |-> DigitsVal(s)]
  ELSE IF Len(s) > 1 /\ s[1] = "-" /\ IsDigits(Tail(s))
       THEN [ok |-> TRUE, val |-> 0 - DigitsVal(Tail(s))]
  ELSE IF Len(s) > 1 /\ s[1] = "+" /\ IsDigits(Tail(s))
       THEN [ok |-> TRUE, val |-> DigitsVal(Tail(s))]
  ELSE [ok |-> FALSE, val |-> 0]

\* catalog[i] on a Python list: a negative i counts from the end, and only
\* an i outside [-len, len) raises IndexError.
ListIndex(catalog, i) ==
  IF 0 <= i /\ i < Len(catalog) THEN [ok |-> TRUE, val |-> catalog[i + 1]]
  ELSE IF 0 - Len(catalog) <= i /\ i < 0
       THEN [ok |-> TRUE, val |-> catalog[Len(catalog) + i + 1]]
  ELSE [ok |-> FALSE, val |-> None]

(***************************************************************************)
(* State                                                                   *)
(***************************************************************************)
VARIABLES
  settings,    \* the add-on's stored settings (ADDON.getSetting)
  self,        \* the TurnOffDialog instance: attribute name -> value
  pc,          \* position of the session's single thread of control
  calls,       \* every executor call made so far, in order
  host,        \* the host: mute flag, display power, system power
  pre,         \* the host's mute flag and display power before activation
  lastCmd,     \* outcome of the most recent run_command
  exitCode,    \* {} while the process runs, {n} once sys.exit(n) or exit
  error,       \* the exception that ended the last handler, or "none"
  closed,      \* the dialog has been closed
  fires,       \* deactivation events delivered so far
  resumeStart, \* Len(calls) when the running resume was entered
  rpc,         \* the last JSON-RPC exchange: request, reply, jsonrpc's return value
  DEBUG_LOGGING  \* the module global read from the host when the module is loaded

vars == <<settings, self, pc, calls, host, pre, lastCmd, exitCode, error,
          closed, fires, resumeStart, rpc, DEBUG_LOGGING>>

\* get_setting handing back the stored value even when it is empty.
get_setting_NoDefault(setting_id, default) == settings[setting_id]

\* get_setting(setting_id, default) for the string-valued settings.
get_setting(setting_id, default) ==
  IF settings[setting_id] = "" THEN default ELSE settings[setting_id]

\* int(get_setting(setting_id, 0)) for the index settings: the default is
\* already the integer 0.
int_setting(setting_id) ==
  IF settings[setting_id] = <<>> THEN [ok |-> TRUE, val |-> 0]
  ELSE int(settings[setting_id])

BoolStrings == {"", "true", "false"}

IndexStrings ==
  { <<>>, <<"0">>, <<"1">>, <<"2">>, <<"3">>, <<"4">>, <<"5">>, <<"6">>, <<"7">>,
    <<"8">>, <<"9">>, <<"1", "0">>, <<"9", "9">>, <<"-", "1">>, <<"-", "7">>,
    <<"-", "1", "0">>, <<"-", "1", "1">>, <<"x">> }

NoCmd == [ran |-> FALSE, kind |-> "none", rc |-> 0, out |-> FALSE]

(***************************************************************************)
(* Command executor                                                        *)
(***************************************************************************)
\* One recorded call: the step of the session it belongs to ("info" for the
\* progress messages, "error" for the failure reports), the function
\* called and its arguments.
Ev(step, fn, args) == [step |-> step, fn |-> fn, args |-> args]

\* What one run can yield: the result list and what, if anything, ends the
\* process.
Result(evs, code) == [calls |-> evs, exit |-> code]

\* jsonrpc(**kwargs): id and jsonrpc are added when absent, the payload is
\* sent, and the exchange is logged at level 3.
jsonrpc(step, kwargs) ==
  << Ev(step, "jsonrpc", kwargs \o <<"id=1", "jsonrpc=2.0">>),
     Ev("info", "log", <<"3", "Sending JSON-RPC payload">>) >>

\* A parsed reply is a mapping; dict.get(key, default) on it.
dictget(d, key, default) == IF key \in DOMAIN d THEN d[key] ELSE default

EmptyDict == [k \in {} |-> "None"]

\* The replies the host gives: a result with a value, a result without
\* one, and a reply that has no result (an error reply).
Replies ==
  { [id |-> "1", jsonrpc |-> "2.0", result |-> [value |-> "true"]],
    [id |-> "1", jsonrpc |-> "2.0", result |-> EmptyDict],
    [id |-> "1", jsonrpc |-> "2.0", error |-> [code |-> "-32601"]] }

\* jsonrpc handing back the reply's result field instead of the reply.
jsonrpc_return_ResultOnly(reply) ==
  IF "result" \in DOMAIN reply THEN reply.result ELSE [k \in {} |-> "None"]

\* What jsonrpc returns for a reply: loads(...) of the reply, whole.
jsonrpc_return(reply) == reply

\* One exchange: the payload sent, the reply, and jsonrpc's return value.
RpcCall(request, reply) ==
  [request |-> request, reply |-> reply, returned |-> jsonrpc_return(reply)]

\* executeJSONRPC: the host answers the request recorded among the calls
\* of this step, if the step sent one.
executeJSONRPC(evs) ==
  IF \E k \in 1..Len(evs) : evs[k].fn = "jsonrpc"
    THEN \E reply \in Replies :
           rpc' = RpcCall((CHOOSE e \in {evs[k] : k \in 1..Len(evs)} : e.fn = "jsonrpc").args,
                          reply)
    ELSE UNCHANGED rpc

\* get_global_setting(setting), given the reply to its request: the value
\* entry of the reply's result, the result defaulting to an empty mapping.
get_global_setting(reply) ==
  dictget(dictget(jsonrpc_return(reply), "result", EmptyDict), "value", "None")

\* The request get_global_setting('debug.showloginfo') sends.
GlobalSettingRequest ==
  jsonrpc("load", <<"method=Settings.GetSettingValue",
                    "params.setting=debug.showloginfo">>)[1].args

set_mute(step, toggle) ==
  jsonrpc(step, <<"method=Application.SetMute",
                  IF toggle THEN "params.mute=true" ELSE "params.mute=false">>)

activate_window(step, window) ==
  jsonrpc(step, <<"method=GUI.ActivateWindow", "params.window", window>>)

run_builtin(step, builtin) ==
  << Ev("info", "log", <<"2", "Executing builtin">>),
     Ev(step, "run_builtin", builtin) >>

\* The outcomes of Popen + communicate: the command ran and returned rc
\* (negative when killed by a signal), with or without output, or it could
\* not be spawned (OSError).
CommandOutcomes ==
  [ran : {TRUE}, kind : {"rc"}, rc : {0, 1, 5, 0 - 9}, out : BOOLEAN]
    \cup {[ran |-> TRUE, kind |-> "oserror", rc |-> 0, out |-> FALSE]}

\* run_command reporting a failed command without ending the process.
RunCommandExit_Swallow(o) == {}

\* run_command handing the command's own return code on to sys.exit.
RunCommandExit_PassRc(o) ==
  IF o.kind = "oserror" THEN {2}
  ELSE IF o.rc = 0 THEN {}
  ELSE {o.rc}

\* The exit code run_command passes to sys.exit for an outcome, {} when it
\* returns normally.
RunCommandExit(o) ==
  IF o.kind = "oserror" THEN {2}
  ELSE IF o.rc = 0 THEN {}
  ELSE {1}

run_command(step, command, o) ==
  LET spawn == Ev(step, "run_command", command) IN
  IF o.kind = "oserror"
    THEN Result(<< spawn,
                   Ev("error", "log_error", <<"Exception running", command[1]>>),
                   Ev("error", "popup", <<"Exception running", command[1]>>) >>,
                RunCommandExit(o))
  ELSE IF o.rc = 0
    THEN Result(<< spawn, Ev("info", "log", <<"2", "Running command returned rc">>) >>,
                RunCommandExit(o))
  ELSE Result(<< spawn, Ev("error", "log_error", <<"Running command failed with rc">>) >>
                \o (IF o.out
                      THEN << Ev("error", "log_error", <<"Command returned on stdout">>) >>
                      ELSE << >>)
                \o << Ev("error", "popup", <<"out", "err">>) >>,
              RunCommandExit(o))

\* func(function, *args, **kwargs): the global function of that name,
\* applied to the arguments.
func(step, function, args, o) ==
  CASE function = "log"         -> Result(<< Ev(step, "log", args) >>, {})
    [] function = "run_builtin" -> Result(run_builtin(step, args), {})
    [] function = "run_command" -> run_command(step, args, o)
    [] function = "jsonrpc"     -> Result(jsonrpc(step, args), {})

\* What the display does when a display action has been carried out.
DisplayAfter(args, cur) ==
  IF args = <<"ToggleDPMS">> THEN ~cur
  ELSE IF \E k \in 1..Len(DISPLAY_METHODS) : args = DISPLAY_METHODS[k].args_off THEN FALSE
  ELSE IF \E k \in 1..Len(DISPLAY_METHODS) : args = DISPLAY_METHODS[k].args_on THEN TRUE
  ELSE cur

\* The outcome a step draws: only run_command has one.
Outcomes(function) == IF function = "run_command" THEN CommandOutcomes ELSE {NoCmd}

(***************************************************************************)
(* TurnOffDialog                                                           *)
(***************************************************************************)
\* The module has been loaded (DEBUG_LOGGING read from the host) and
\* TurnOffDialog.__init__ has run: every attribute None, exit registered
\* with atexit.
Init ==
  /\ settings \in [logoff : BoolStrings, mute : BoolStrings,
                   display_method : IndexStrings, power_method : IndexStrings]
  /\ self = [display |-> None, logoff |-> "None", monitor |-> None,
             mute |-> "None", power |-> None]
  /\ pc = "idle"
  /\ calls = <<>>
  /\ host \in [muted : BOOLEAN, displayOn : BOOLEAN, power : {"on"}]
  /\ pre = [muted |-> host.muted, displayOn |-> host.displayOn]
  /\ lastCmd = NoCmd
  /\ exitCode = {}
  /\ error = "none"
  /\ closed = FALSE
  /\ fires = 0
  /\ resumeStart = 0
  /\ \E reply \in Replies :
       /\ rpc = RpcCall(GlobalSettingRequest, reply)
       /\ DEBUG_LOGGING = get_global_setting(reply)


\* onInit with the power request sent before the monitor is created.
OnInitNext_PowerFirst(p) ==
  CASE p = "idle"        -> "display_off"
    [] p = "display_off" -> "logoff"
    [] p = "logoff"      -> "mute"
    [] p = "mute"        -> "power_off"
    [] p = "power_off"   -> "monitor"
    [] p = "monitor"     -> "active"

\* The order of the statements of onInit.
OnInitNext(p) ==
  CASE p = "idle"        -> "display_off"
    [] p = "display_off" -> "logoff"
    [] p = "logoff"      -> "mute"
    [] p = "mute"        -> "monitor"
    [] p = "monitor"     -> "power_off"
    [] p = "power_off"   -> "active"

\* resume cleaning up before it has unmuted and turned the display on.
ResumeNext_ExitFirst(p) ==
  CASE p = "fire"        -> "resume_exit"
    [] p = "resume_exit" -> "unmute"
    [] p = "unmute"      -> "display_on"
    [] p = "display_on"  -> "done"

\* resume sending the power request again after the display on-action.
ResumeNext_PowerAgain(p) ==
  CASE p = "fire"        -> "unmute"
    [] p = "unmute"      -> "display_on"
    [] p = "display_on"  -> "power_off"
    [] p = "resume_exit" -> "done"

\* The order of the statements of resume.
ResumeNext(p) ==
  CASE p = "fire"        -> "unmute"
    [] p = "unmute"      -> "display_on"
    [] p = "display_on"  -> "resume_exit"
    [] p = "resume_exit" -> "done"

\* sys.exit(n): the handler is abandoned and the interpreter shuts down,
\* which runs the atexit handlers.
SysExit(code) ==
  /\ pc' = "atexit"
  /\ exitCode' = code

\* onInit, first part: read the settings and resolve both methods.
onInit ==
  /\ pc = "idle"
  /\ LET logoff  == get_setting("logoff", "false")
         mute    == get_setting("mute", "true")
         dm      == int_setting("display_method")
         display == ListIndex(DISPLAY_METHODS, dm.val)
         pm      == int_setting("power_method")
         power   == ListIndex(POWER_METHODS, pm.val)
         s1      == [self EXCEPT !.logoff = logoff, !.mute = mute]
         s2      == [s1 EXCEPT !.display = display.val]
         s3      == [s2 EXCEPT !.power = power.val]
     IN
       IF ~dm.ok THEN
         /\ self' = s1 /\ error' = "ValueError" /\ pc' = "aborted"
         /\ UNCHANGED calls
       ELSE IF ~display.ok THEN
         /\ self' = s1 /\ error' = "IndexError" /\ pc' = "aborted"
         /\ UNCHANGED calls
       ELSE IF ~pm.ok THEN
         /\ self' = s2 /\ error' = "ValueError" /\ pc' = "aborted"
         /\ UNCHANGED calls
       ELSE IF ~power.ok THEN
         /\ self' = s2 /\ error' = "IndexError" /\ pc' = "aborted"
         /\ UNCHANGED calls
       ELSE
         /\ self' = s3 /\ error' = "none" /\ pc' = OnInitNext(pc)
         /\ calls' = Append(calls, Ev("info", "log", <<"3", "display_method, power_method, logoff, mute">>))
  /\ UNCHANGED <<settings, DEBUG_LOGGING, rpc, host, pre, lastCmd, exitCode, closed, fires, resumeStart>>

\* onInit: turn off display.
DisplayOff ==
  /\ pc = "display_off"
  /\ \E o \in Outcomes(self.display.function) :
       LET r == func("display_off", self.display.function, self.display.args_off, o)
           info == IF self.display.name # "do-nothing"
                     THEN << Ev("info", "log", <<"1", "Turn display off using method">>) >>
                     ELSE << >>
       IN /\ calls' = calls \o info \o r.calls
          /\ lastCmd' = o
          /\ IF r.exit # {}
               THEN SysExit(r.exit) /\ UNCHANGED host
               ELSE /\ pc' = OnInitNext(pc)
                    /\ UNCHANGED exitCode
                    /\ host' = IF self.display.function = "log" THEN host
                               ELSE [host EXCEPT !.displayOn =
                                       DisplayAfter(self.display.args_off, host.displayOn)]
  /\ UNCHANGED <<settings, DEBUG_LOGGING, rpc, self, pre, error, closed, fires, resumeStart>>

\* onInit: log off user.
LogOff ==
  /\ pc = "logoff"
  /\ pc' = OnInitNext(pc)
  /\ calls' = IF self.logoff = "true"
                THEN calls \o << Ev("info", "log", <<"1", "Log off user">>) >>
                           \o activate_window("logoff", "loginscreen")
                ELSE calls
  /\ executeJSONRPC(SubSeq(calls', Len(calls) + 1, Len(calls')))
  /\ UNCHANGED <<settings, DEBUG_LOGGING, self, host, pre, lastCmd, exitCode, error, closed, fires, resumeStart>>

\* onInit: mute audio.
MuteAudio ==
  /\ pc = "mute"
  /\ pc' = OnInitNext(pc)
  /\ IF self.mute = "true"
       THEN /\ calls' = calls \o << Ev("info", "log", <<"1", "Mute audio">>) >>
                              \o set_mute("mute", TRUE)
            /\ host' = [host EXCEPT !.muted = TRUE]
       ELSE UNCHANGED <<calls, host>>
  /\ executeJSONRPC(SubSeq(calls', Len(calls) + 1, Len(calls')))
  /\ UNCHANGED <<settings, DEBUG_LOGGING, self, pre, lastCmd, exitCode, error, closed, fires, resumeStart>>

\* TurnOffMonitor.__init__: the monitor keeps the action it is given.
TurnOffMonitor(action) == [name |-> "TurnOffMonitor", action |-> action]

\* onInit: create the monitor with resume as its action.
CreateMonitor ==
  /\ pc = "monitor"
  /\ pc' = OnInitNext(pc)
  /\ self' = [self EXCEPT !.monitor = TurnOffMonitor("resume")]
  /\ calls' = Append(calls, Ev("monitor", "TurnOffMonitor", <<"action=resume">>))
  /\ UNCHANGED <<settings, DEBUG_LOGGING, rpc, host, pre, lastCmd, exitCode, error, closed, fires, resumeStart>>

\* The state of the system after a power request has been sent.
PowerAfter(entry, cur) ==
  IF entry.function = "jsonrpc" THEN entry.kwargs_off[1] ELSE cur

\* onInit: power off system.
PowerOff ==
  /\ pc = "power_off"
  /\ pc' = OnInitNext(pc)
  /\ LET r == func("power_off", self.power.function, self.power.kwargs_off, NoCmd)
         info == IF self.power.name # "do-nothing"
                   THEN << Ev("info", "log", <<"1", "Turn system off using method">>) >>
                   ELSE << >>
     IN calls' = calls \o info \o r.calls
  /\ host' = [host EXCEPT !.power = PowerAfter(self.power, host.power)]
  /\ executeJSONRPC(SubSeq(calls', Len(calls) + 1, Len(calls')))
  /\ UNCHANGED <<settings, DEBUG_LOGGING, self, pre, lastCmd, exitCode, error, closed, fires, resumeStart>>


\* hasattr(obj, name) and del obj.name on the instance's attributes.
hasattr(obj, name) == name \in DOMAIN obj

delattr(obj, name) == [a \in DOMAIN obj \ {name} |-> obj[a]]

\* exit also resetting the resolved display method.
exit_ResetsDisplay(obj) ==
  [self   |-> IF "monitor" \in DOMAIN obj
                THEN [a \in DOMAIN obj \ {"monitor"} |->
                        IF a = "display" THEN None ELSE obj[a]]
                ELSE [obj EXCEPT !.display = None],
   calls  |-> (IF "monitor" \in DOMAIN obj
                 THEN << Ev("teardown", "del", <<"monitor">>) >> ELSE << >>)
              \o << Ev("teardown", "close", << >>) >>,
   closed |-> TRUE,
   error  |-> "none"]

\* exit deleting the monitor without looking whether it is still there.
exit_Unguarded(obj) ==
  IF hasattr(obj, "monitor")
    THEN [self   |-> delattr(obj, "monitor"),
          calls  |-> << Ev("teardown", "del", <<"monitor">>),
                        Ev("teardown", "close", << >>) >>,
          closed |-> TRUE,
          error  |-> "none"]
    ELSE [self |-> obj, calls |-> << >>, closed |-> FALSE, error |-> "AttributeError"]

\* TurnOffDialog.exit: drop the monitor if the attribute is still there,
\* then close the dialog.
exit(obj) ==
  [self   |-> IF hasattr(obj, "monitor") THEN delattr(obj, "monitor") ELSE obj,
   calls  |-> (IF hasattr(obj, "monitor")
                 THEN << Ev("teardown", "del", <<"monitor">>) >> ELSE << >>)
              \o << Ev("teardown", "close", << >>) >>,
   closed |-> TRUE,
   error  |-> "none"]

\* TurnOffMonitor.onScreensaverDeactivated: the host delivers the
\* deactivation event to the monitor, which calls its action (resume).
onScreensaverDeactivated ==
  /\ pc \in {"active", "done"}
  /\ fires < MaxFires
  /\ fires' = fires + 1
  /\ resumeStart' = Len(calls)
  /\ pc' = ResumeNext("fire")
  /\ UNCHANGED <<settings, DEBUG_LOGGING, rpc, self, calls, host, pre, lastCmd, exitCode, error, closed>>

\* resume unmuting on the logoff setting instead of the mute setting.
Unmute_ChecksLogoff ==
  /\ pc = "unmute"
  /\ pc' = ResumeNext(pc)
  /\ IF self.logoff = "true"
       THEN /\ calls' = calls \o << Ev("info", "log", <<"1", "Unmute audio">>) >>
                              \o set_mute("unmute", FALSE)
            /\ host' = [host EXCEPT !.muted = FALSE]
       ELSE UNCHANGED <<calls, host>>
  /\ executeJSONRPC(SubSeq(calls', Len(calls) + 1, Len(calls')))
  /\ UNCHANGED <<settings, DEBUG_LOGGING, self, pre, lastCmd, exitCode, error, closed, fires, resumeStart>>

\* resume: unmute audio.
Unmute ==
  /\ pc = "unmute"
  /\ pc' = ResumeNext(pc)
  /\ IF self.mute = "true"
       THEN /\ calls' = calls \o << Ev("info", "log", <<"1", "Unmute audio">>) >>
                              \o set_mute("unmute", FALSE)
            /\ host' = [host EXCEPT !.muted = FALSE]
       ELSE UNCHANGED <<calls, host>>
  /\ executeJSONRPC(SubSeq(calls', Len(calls) + 1, Len(calls')))
  /\ UNCHANGED <<settings, DEBUG_LOGGING, self, pre, lastCmd, exitCode, error, closed, fires, resumeStart>>

\* resume running the display method's off-arguments again.
DisplayOn_OffArgs ==
  /\ pc = "display_on"
  /\ \E o \in Outcomes(self.display.function) :
       LET r == func("display_on", self.display.function, self.display.args_off, o)
           info == IF self.display.name # "do-nothing"
                     THEN << Ev("info", "log", <<"1", "Turn display back on using method">>) >>
                     ELSE << >>
       IN /\ calls' = calls \o info \o r.calls
          /\ lastCmd' = o
          /\ IF r.exit # {}
               THEN SysExit(r.exit) /\ UNCHANGED host
               ELSE /\ pc' = ResumeNext(pc)
                    /\ UNCHANGED exitCode
                    /\ host' = IF self.display.function = "log" THEN host
                               ELSE [host EXCEPT !.displayOn =
                                       DisplayAfter(self.display.args_off, host.displayOn)]
  /\ UNCHANGED <<settings, DEBUG_LOGGING, rpc, self, pre, error, closed, fires, resumeStart>>

\* resume: turn on display.
DisplayOn ==
  /\ pc = "display_on"
  /\ \E o \in Outcomes(self.display.function) :
       LET r == func("display_on", self.display.function, self.display.args_on, o)
           info == IF self.display.name # "do-nothing"
                     THEN << Ev("info", "log", <<"1", "Turn display back on using method">>) >>
                     ELSE << >>
       IN /\ calls' = calls \o info \o r.calls
          /\ lastCmd' = o
          /\ IF r.exit # {}
               THEN SysExit(r.exit) /\ UNCHANGED host
               ELSE /\ pc' = ResumeNext(pc)
                    /\ UNCHANGED exitCode
                    /\ host' = IF self.display.function = "log" THEN host
                               ELSE [host EXCEPT !.displayOn =
                                       DisplayAfter(self.display.args_on, host.displayOn)]
  /\ UNCHANGED <<settings, DEBUG_LOGGING, rpc, self, pre, error, closed, fires, resumeStart>>

\* One call of self.exit(): control goes on to q when it returns and to
\* qerr when it raises.
CallExit(q, qerr) ==
  LET r == exit(self) IN
  /\ self' = r.self
  /\ calls' = calls \o r.calls
  /\ closed' = (closed \/ r.closed)
  /\ error' = r.error
  /\ pc' = IF r.error = "none" THEN q ELSE qerr

\* resume: clean up everything.
ResumeExit ==
  /\ pc = "resume_exit"
  /\ CallExit(ResumeNext(pc), "aborted")
  /\ UNCHANGED <<settings, DEBUG_LOGGING, rpc, host, pre, lastCmd, exitCode, fires, resumeStart>>

\* The interpreter ends on its own: the modal dialog has returned, the
\* script has run to its end, or the host is shutting down.
ProcessExit ==
  /\ pc \in {"idle", "aborted", "active", "done"}
  /\ pc' = "atexit"
  /\ exitCode' = {0}
  /\ UNCHANGED <<settings, DEBUG_LOGGING, rpc, self, calls, host, pre, lastCmd, error, closed, fires, resumeStart>>

\* Interpreter shutdown with no cleanup handler registered.
AtExit_NotRegistered ==
  /\ pc = "atexit"
  /\ pc' = "terminated"
  /\ UNCHANGED <<settings, DEBUG_LOGGING, rpc, self, calls, host, pre, lastCmd, exitCode,
                 error, closed, fires, resumeStart>>

\* Interpreter shutdown runs the handler registered in __init__.
AtExit ==
  /\ pc = "atexit"
  /\ CallExit("terminated", "terminated")
  /\ UNCHANGED <<settings, DEBUG_LOGGING, rpc, host, pre, lastCmd, exitCode, fires, resumeStart>>

Next ==
  \/ onInit
  \/ DisplayOff
  \/ LogOff
  \/ MuteAudio
  \/ CreateMonitor
  \/ PowerOff
  \/ onScreensaverDeactivated
  \/ Unmute
  \/ DisplayOn
  \/ ResumeExit
  \/ ProcessExit
  \/ AtExit

Spec == Init /\ [][Next]_vars


(***************************************************************************)
(* Properties                                                              *)
(***************************************************************************)
\* The recorded calls that belong to the given steps, in order.
Only(steps) == SelectSeq(calls, LAMBDA e : e.step \in steps)

StepNames(evs) == [k \in 1..Len(evs) |-> evs[k].step]

IsPrefix(a, b) == Len(a) <= Len(b) /\ a = SubSeq(b, 1, Len(a))

Count(steps) == Len(Only(steps))

ValidIndex(setting_id, catalog) ==
  LET i == int_setting(setting_id) IN i.ok /\ 0 <= i.val /\ i.val < Len(catalog)

OutOfBounds(setting_id, catalog) ==
  LET i == int_setting(setting_id) IN i.ok /\ (i.val < 0 \/ i.val >= Len(catalog))

ActivationSteps == {"display_off", "logoff", "mute", "monitor", "power_off"}

ActivationOrder == <<"display_off", "logoff", "mute", "monitor", "power_off">>

LogoffAndMuteConfigured ==
  /\ get_setting("logoff", "false") = "true"
  /\ get_setting("mute", "true") = "true"
  /\ ValidIndex("display_method", DISPLAY_METHODS)
  /\ ValidIndex("power_method", POWER_METHODS)

\* C1: with logoff and mute enabled and valid indices, the effects of onInit
\* happen in the order display off-action, login screen, mute on, monitor
\* creation, power off-action: what has been done so far is always an
\* initial part of that list, the whole list has been done once onInit has
\* returned, and the monitor with resume as its action is in place whenever
\* the power off-action is about to run or has run.
C1_ActivationOrder ==
  LogoffAndMuteConfigured =>
    LET done == Only(ActivationSteps) IN
    /\ IsPrefix(StepNames(done), ActivationOrder)
    /\ (pc = "active" => StepNames(done) = ActivationOrder)
    /\ (Len(done) >= 1 =>
          /\ done[1].fn = self.display.function
          /\ done[1].args = self.display.args_off)
    /\ (Len(done) >= 2 =>
          done[2].args = <<"method=GUI.ActivateWindow", "params.window", "loginscreen",
                           "id=1", "jsonrpc=2.0">>)
    /\ (Len(done) >= 3 =>
          done[3].args = <<"method=Application.SetMute", "params.mute=true",
                           "id=1", "jsonrpc=2.0">>)
    /\ (Len(done) >= 4 => done[4].args = <<"action=resume">>)
    /\ (Len(done) >= 5 =>
          /\ done[5].fn = self.power.function
          /\ done[5].args = (IF self.power.function = "jsonrpc"
                               THEN self.power.kwargs_off \o <<"id=1", "jsonrpc=2.0">>
                               ELSE self.power.kwargs_off))
    /\ (pc = "power_off" \/ Count({"power_off"}) > 0 =>
          Count({"monitor"}) = 1)
    /\ (pc = "power_off" =>
          hasattr(self, "monitor") /\ self.monitor = TurnOffMonitor("resume"))

\* C1 witness: onInit has returned after doing all five steps, the display
\* and power methods being real ones.
C1_Witness ==
  /\ LogoffAndMuteConfigured
  /\ pc = "active"
  /\ StepNames(Only(ActivationSteps)) = ActivationOrder
  /\ self.display.name = "no-signal-rpi"
  /\ self.power.name = "suspend-builtin"


\* C2: when the deactivation event is delivered twice, the resume sequence
\* runs once only: at most one unmute call and at most one display
\* on-action are ever made.
C2_ResumeOnce ==
  /\ Count({"unmute"}) <= 1
  /\ Count({"display_on"}) <= 1

\* C3: activation followed by resume, with no failed command, leaves the
\* host's mute flag (when mute was applied) and the display power (when a
\* display method other than do-nothing was applied) as they were before
\* activation.
C3_RoundTrip ==
  (pc = "done" /\ fires = 1) =>
    /\ (self.mute = "true" => host.muted = pre.muted)
    /\ (self.display.name # "do-nothing" => host.displayOn = pre.displayOn)

\* What onInit resolved for a catalog, None when it resolved nothing.
Resolved(attr) == self[attr]

\* C4: once onInit has resolved the methods, a configured index inside
\* [0, len) has yielded the catalog entry at that position, and a configured
\* index outside [0, len), negative ones included, has yielded no entry.
C4_Lookup ==
  self.logoff # "None" =>
    /\ (ValidIndex("display_method", DISPLAY_METHODS) =>
          Resolved("display") = DISPLAY_METHODS[int_setting("display_method").val + 1])
    /\ (OutOfBounds("display_method", DISPLAY_METHODS) => Resolved("display") = None)
    /\ (ValidIndex("display_method", DISPLAY_METHODS)
          /\ ValidIndex("power_method", POWER_METHODS) =>
          Resolved("power") = POWER_METHODS[int_setting("power_method").val + 1])
    /\ (OutOfBounds("power_method", POWER_METHODS) => Resolved("power") = None)

\* C5: when either configured index is outside its catalog's bounds, no
\* process is spawned, no builtin is run, no remote call is made, no monitor
\* is created, and the host's display, mute flag and power stay as they were.
C5_AbortBeforeAnyAction ==
  (OutOfBounds("display_method", DISPLAY_METHODS)
     \/ OutOfBounds("power_method", POWER_METHODS)) =>
    /\ \A k \in 1..Len(calls) :
         calls[k].fn \notin {"run_command", "run_builtin", "jsonrpc", "TurnOffMonitor"}
    /\ host = [muted |-> pre.muted, displayOn |-> pre.displayOn, power |-> "on"]


\* The last two recorded calls are an error log entry, at some point before
\* the end, and the notification, at the end.
ErrorReported(evs) ==
  /\ Len(evs) >= 2
  /\ evs[Len(evs)].fn = "popup"
  /\ evs[Len(evs) - 1].fn = "log_error"

\* C6: a step that runs a command through run_command ends the process
\* with exit code 1 when the command returned any non-zero code, after an
\* error log entry and a notification, with exit code 2 when the command
\* could not be spawned, and does not end the process when the command
\* returned 0: the sequence then goes on with its next step.  The exit code
\* of a process that ended in a handler is the one of the failed command.
C6_ExitCodes ==
  /\ [][(pc \in {"display_off", "display_on"} /\ self.display.function = "run_command") =>
          /\ (lastCmd'.kind = "rc" /\ lastCmd'.rc # 0 =>
                exitCode' = {1} /\ pc' = "atexit" /\ ErrorReported(calls'))
          /\ (lastCmd'.kind = "oserror" =>
                exitCode' = {2} /\ pc' = "atexit" /\ ErrorReported(calls'))
          /\ (lastCmd'.kind = "rc" /\ lastCmd'.rc = 0 =>
                /\ exitCode' = {}
                /\ pc' = (IF pc = "display_off" THEN "logoff" ELSE "resume_exit"))]_vars
  /\ [](pc = "terminated" /\ lastCmd.kind = "rc" /\ lastCmd.rc # 0 => exitCode = {1})
  /\ [](pc = "terminated" /\ lastCmd.kind = "oserror" => exitCode = {2})

\* C6 witness: a command returned 5 and the process has ended with code 1.
C6_Witness ==
  /\ lastCmd.kind = "rc"
  /\ lastCmd.rc = 5
  /\ exitCode = {1}
  /\ pc = "terminated"

\* C7: with display index 0 the display off- and on-steps make log calls
\* only, and no process is spawned and no builtin is run in the whole
\* session; with power index 0 the power off-step makes a log call only;
\* position 0 of both catalogs is the do-nothing entry.
C7_DoNothing ==
  /\ DISPLAY_METHODS[1].name = "do-nothing"
  /\ POWER_METHODS[1].name = "do-nothing"
  /\ (int_setting("display_method") = [ok |-> TRUE, val |-> 0] =>
        \A k \in 1..Len(calls) :
          /\ calls[k].fn \notin {"run_command", "run_builtin"}
          /\ (calls[k].step \in {"display_off", "display_on"} => calls[k].fn = "log"))
  /\ (int_setting("power_method") = [ok |-> TRUE, val |-> 0] =>
        \A k \in 1..Len(calls) :
          calls[k].step = "power_off" => calls[k].fn = "log")

\* C7 witness: a session with both indices 0 has been activated and resumed.
C7_Witness ==
  /\ settings.display_method = <<"0">>
  /\ settings.power_method = <<"0">>
  /\ pc = "done"
  /\ Count({"display_off"}) = 1
  /\ Count({"display_on"}) = 1
  /\ Count({"power_off"}) = 1

\* The steps of the resume that is running or ran last, without the
\* progress messages and failure reports.
ResumeTrace ==
  SelectSeq(SubSeq(calls, resumeStart + 1, Len(calls)),
            LAMBDA e : e.step \notin {"info", "error"})

\* The calls resume makes before it tears down.
ResumeOrder ==
  (IF self.mute = "true"
     THEN << Ev("unmute", "jsonrpc",
                <<"method=Application.SetMute", "params.mute=false", "id=1", "jsonrpc=2.0">>) >>
     ELSE << >>)
  \o << Ev("display_on", self.display.function, self.display.args_on) >>

FirstTeardown(t) ==
  IF \E k \in 1..Len(t) : t[k].step = "teardown"
    THEN CHOOSE k \in 1..Len(t) :
           t[k].step = "teardown" /\ \A j \in 1..(k - 1) : t[j].step # "teardown"
    ELSE Len(t) + 1

\* C8: after a deactivation event, what resume has done so far is: the
\* unmute call if mute is enabled, then the display on-action with the
\* method's on-arguments (a log call only for do-nothing), and only then the
\* removal of the monitor and the closing of the dialog; no teardown step
\* comes before those calls, and resume has made them all when it returns.
C8_ResumeOrder ==
  fires >= 1 =>
    LET t == ResumeTrace
        k == FirstTeardown(t)
    IN /\ IsPrefix(SubSeq(t, 1, k - 1), ResumeOrder)
       /\ (k <= Len(t) => SubSeq(t, 1, k - 1) = ResumeOrder)
       /\ (pc = "done" => k <= Len(t) /\ t[Len(t)].fn = "close")
       /\ (self.display.name = "do-nothing" =>
             \A j \in 1..Len(t) : t[j].step = "display_on" => t[j].fn = "log")

\* C8 witness: the first resume of a session with mute enabled and an
\* external display command has unmuted, run the on-command, removed the
\* monitor and closed the dialog.
C8_Witness ==
  /\ fires = 1
  /\ pc = "done"
  /\ self.mute = "true"
  /\ self.display.name = "dpms-xset"
  /\ StepNames(ResumeTrace) = <<"unmute", "display_on", "teardown", "teardown">>
  /\ ~hasattr(self, "monitor")
  /\ closed

\* C9: every call of exit returns normally and leaves the monitor absent
\* and the dialog closed, and a call made after an earlier one changes
\* neither the instance nor the closed dialog.
C9_ExitIdempotent ==
  /\ [][(pc \in {"resume_exit", "atexit"}) =>
          ( /\ error' = "none"
            /\ closed'
            /\ ~hasattr(self', "monitor")
            /\ Len(calls') > Len(calls)
            /\ calls'[Len(calls')].fn = "close"
            /\ (Count({"teardown"}) > 0 => (self' = self /\ closed' = closed)) )]_vars
  /\ [](Count({"teardown"}) > 0 => ~hasattr(self, "monitor") /\ closed)

\* C9 witness: exit has run three times, from resume twice and from the
\* process-exit cleanup once.
C9_Witness ==
  /\ pc = "terminated"
  /\ Len(SelectSeq(calls, LAMBDA e : e.fn = "close")) >= 3
  /\ ~hasattr(self, "monitor")
  /\ closed
  /\ error = "none"

\* The off-effects the session is configured to apply, and those of them
\* the host shows.
ConfiguredOff ==
  (IF self.display.name # "do-nothing" THEN {"display"} ELSE {})
    \cup (IF self.mute = "true" THEN {"mute"} ELSE {})

InForce ==
  (IF ~host.displayOn THEN {"display"} ELSE {})
    \cup (IF host.muted THEN {"mute"} ELSE {})

\* C10: when a failed or unspawnable command has ended a session that
\* started with the display on and the audio unmuted, the configured
\* off-effects are either all in force or all not in force.
C10_NoHalfApplied ==
  (pc \in {"atexit", "terminated"} /\ exitCode \in {{1}, {2}}
     /\ pre.displayOn /\ ~pre.muted) =>
    \/ ConfiguredOff \cap InForce = {}
    \/ ConfiguredOff \subseteq InForce


\* C11: the power method's action runs at most once in a session, as the
\* last step of activation and before any deactivation event: the step that
\* records it is the power step of onInit, which then returns, it carries
\* the off-arguments of the resolved power method, no activation step is
\* recorded after it, and no step of resume or of teardown records one.
C11_PowerOnlyOff ==
  /\ [](Count({"power_off"}) <= 1)
  /\ [](\A k \in 1..Len(calls) :
          calls[k].step = "power_off" =>
            /\ calls[k].fn = self.power.function
            /\ \A j \in (k + 1)..Len(calls) : calls[j].step \notin ActivationSteps
            /\ \A j \in 1..(k - 1) : calls[j].step \notin {"unmute", "display_on", "teardown"})
  /\ [][Count({"power_off"})' # Count({"power_off"}) =>
          (pc = "power_off" /\ pc' = "active" /\ fires = 0)]_vars
  /\ [][(pc \in {"unmute", "display_on", "resume_exit", "atexit"}) =>
          (host'.power = host.power /\ Count({"power_off"})' = Count({"power_off"}))]_vars

\* C11 witness: a session that suspended the system at activation has been
\* resumed twice and torn down, with one power request in all.
C11_Witness ==
  /\ self.power.name = "suspend-builtin"
  /\ fires = 2
  /\ pc = "terminated"
  /\ Count({"power_off"}) = 1
  /\ host.power = "method=System.Suspend"


\* The processes spawned so far, in order.
Spawned == SelectSeq(calls, LAMBDA e : e.fn = "run_command")

\* The display method is one that runs an external command.
ExternalDisplayMethod ==
  /\ self.display # None
  /\ self.display.function = "run_command"

\* C12: with an external-command display method, activation spawns one
\* process, the one of the entry's off-arguments; when it returns 0 onInit
\* goes on with its next step; every deactivation spawns one process, the
\* one of the same entry's on-arguments; and no other process is spawned:
\* the processes of a session are the off-command followed by one
\* on-command for each resume that reached its display step.
C12_ExternalProcess ==
  /\ [](ExternalDisplayMethod =>
          /\ Len(Spawned) <= 1 + fires
          /\ \A k \in 1..Len(Spawned) :
               IF k = 1
                 THEN Spawned[k] = Ev("display_off", "run_command", self.display.args_off)
                 ELSE Spawned[k] = Ev("display_on", "run_command", self.display.args_on)
          /\ (pc \in {"logoff", "mute", "monitor", "power_off", "active"} =>
                Len(Spawned) = 1)
          /\ (pc \in {"resume_exit", "done"} => Len(Spawned) = 1 + fires))
  /\ [](~ExternalDisplayMethod => Spawned = << >>)
  /\ [][(pc = "display_off" /\ ExternalDisplayMethod) =>
          /\ Len(Spawned') = 1
          /\ (lastCmd'.kind = "rc" /\ lastCmd'.rc = 0 => pc' = "logoff" /\ exitCode' = {})]_vars
  /\ [][(pc = "display_on" /\ ExternalDisplayMethod) =>
          /\ Len(Spawned') = Len(Spawned) + 1
          /\ Spawned'[Len(Spawned')].args = self.display.args_on]_vars

\* C12 witness: display_method = 2: vcgencmd display_power 0 was spawned at
\* activation and returned 0, the session went on, and the deactivation
\* spawned vcgencmd display_power 1.
C12_Witness ==
  /\ settings.display_method = <<"2">>
  /\ fires = 1
  /\ pc = "done"
  /\ Spawned = << Ev("display_off", "run_command", <<"vcgencmd", "display_power", "0">>),
                  Ev("display_on", "run_command", <<"vcgencmd", "display_power", "1">>) >>


\* The requests sent so far by the session, in order.
Requests == SelectSeq(calls, LAMBDA e : e.fn = "jsonrpc")

\* The payload is the given method and parameters followed by the fixed
\* id and protocol version.
InEnvelope(payload) ==
  /\ Len(payload) >= 3
  /\ SubSeq(payload, Len(payload) - 1, Len(payload)) = <<"id=1", "jsonrpc=2.0">>
  /\ payload[1] \in {"method=Settings.GetSettingValue", "method=Application.SetMute",
                     "method=GUI.ActivateWindow"}
                    \cup {POWER_METHODS[k].kwargs_off[1] : k \in 2..Len(POWER_METHODS)}

\* C13 as stated: every request is in the envelope, and what jsonrpc returns
\* is the result field of the reply, or an empty mapping when the reply has
\* none.
C13_ReturnsResultField ==
  /\ InEnvelope(rpc.request)
  /\ rpc.returned = dictget(rpc.reply, "result", EmptyDict)

\* C13 amended: every request is in the envelope with id 1 and version 2.0
\* around the given method and parameters; jsonrpc returns the whole parsed
\* reply; get_global_setting is what takes the result field of that reply,
\* or an empty mapping when there is none, and yields its value entry.
C13_EnvelopeAndReply ==
  /\ InEnvelope(rpc.request)
  /\ \A k \in 1..Len(Requests) : InEnvelope(Requests[k].args)
  /\ (Requests # << >> => rpc.request = Requests[Len(Requests)].args)
  /\ rpc.returned = rpc.reply
  /\ (Requests = << >> =>
        /\ rpc.request = <<"method=Settings.GetSettingValue",
                           "params.setting=debug.showloginfo", "id=1", "jsonrpc=2.0">>
        /\ ("result" \in DOMAIN rpc.reply /\ "value" \in DOMAIN rpc.reply.result =>
              DEBUG_LOGGING = rpc.reply.result.value)
        /\ ("result" \notin DOMAIN rpc.reply => DEBUG_LOGGING = "None")
        /\ ("result" \in DOMAIN rpc.reply /\ "value" \notin DOMAIN rpc.reply.result =>
              DEBUG_LOGGING = "None"))

\* C13 witness: the module read the debug flag from a reply with a result,
\* and the session's mute request has been answered by a reply without one.
C13_Witness ==
  /\ DEBUG_LOGGING = "true"
  /\ pc = "monitor"
  /\ rpc.request = <<"method=Application.SetMute", "params.mute=true", "id=1", "jsonrpc=2.0">>
  /\ "result" \notin DOMAIN rpc.reply
  /\ rpc.returned = rpc.reply


\* onInit has populated the four configuration fields.
Populated ==
  /\ self.logoff # "None"
  /\ self.mute # "None"
  /\ self.display # None
  /\ self.power # None

FourFieldsKept ==
  /\ self'.display = self.display
  /\ self'.power = self.power
  /\ self'.logoff = self.logoff
  /\ self'.mute = self.mute

MonitorRemoved ==
  /\ hasattr(self, "monitor")
  /\ ~hasattr(self', "monitor")

MonitorCreated ==
  /\ hasattr(self, "monitor") /\ self.monitor = None
  /\ hasattr(self', "monitor") /\ self'.monitor = TurnOffMonitor("resume")

MonitorKept ==
  /\ hasattr(self, "monitor") <=> hasattr(self', "monitor")
  /\ (hasattr(self, "monitor") => self'.monitor = self.monitor)

\* C14 as stated: once the four fields are populated no step changes them,
\* and a step changes the monitor field only by teardown removing it.
C14_OnlyTeardownChangesMonitor ==
  [][Populated => (FourFieldsKept /\ (MonitorKept \/ MonitorRemoved))]_vars

\* C14 amended: once the four fields are populated no step changes them,
\* and the monitor field changes only twice: the rest of activation sets it
\* to the newly created monitor, and teardown removes it.
C14_FieldsWrittenOnce ==
  [][Populated =>
       /\ FourFieldsKept
       /\ \/ MonitorKept
          \/ (MonitorCreated /\ pc = "monitor")
          \/ (MonitorRemoved /\ pc \in {"resume_exit", "atexit"})]_vars

\* C14 witness: the fields populated by onInit are still in place after a
\* resume, a second resume and the process-exit cleanup, the monitor gone.
C14_Witness ==
  /\ Populated
  /\ self.display = DISPLAY_METHODS[5]
  /\ self.power = POWER_METHODS[3]
  /\ self.logoff = "true"
  /\ self.mute = "false"
  /\ fires = 2
  /\ pc = "terminated"
  /\ ~hasattr(self, "monitor")


\* The display off-command of onInit was run and failed: it returned a
\* non-zero code or could not be spawned.
DisplayOffFailed ==
  /\ Len(Spawned) = 1
  /\ Spawned[1].step = "display_off"
  /\ lastCmd.ran
  /\ (lastCmd.kind = "oserror" \/ lastCmd.rc # 0)

\* C15: when the display off-command fails, onInit stops there: no login
\* screen call, no mute call, no monitor and no power action follow, the
\* process is ending or has ended with the failure's exit code, and no
\* deactivation event is ever handled, so no resume step runs.
C15_StopsAtFailedDisplayOff ==
  DisplayOffFailed =>
    /\ Count({"logoff", "mute", "monitor", "power_off"}) = 0
    /\ Count({"unmute", "display_on"}) = 0
    /\ Requests = << >>
    /\ fires = 0
    /\ pc \in {"atexit", "terminated"}
    /\ exitCode \in {{1}, {2}}
    /\ (hasattr(self, "monitor") => self.monitor = None)
    /\ host = [muted |-> pre.muted, displayOn |-> pre.displayOn, power |-> "on"]

\* C15 witness: xset dpms force off returned 1 at activation and the
\* process has ended, logoff and mute being enabled and a power method set.
C15_Witness ==
  /\ DisplayOffFailed
  /\ self.display.name = "dpms-xset"
  /\ self.logoff = "true"
  /\ self.mute = "true"
  /\ self.power.name = "shutdown-builtin"
  /\ lastCmd.rc = 1
  /\ pc = "terminated"
  /\ exitCode = {1}


MuteRequest(toggle) ==
  <<"method=Application.SetMute",
    IF toggle THEN "params.mute=true" ELSE "params.mute=false", "id=1", "jsonrpc=2.0">>

\* The running or last resume has got past its unmute statement.
PastUnmute == fires >= 1 /\ pc \in {"display_on", "resume_exit", "done"}

\* C16: a resume sends set-mute(false) exactly when the activation of the
\* session sent set-mute(true); every display on-action is the on-action of
\* the catalog entry whose off-action the activation ran; with mute not
\* enabled no mute request is ever sent, and with logoff not enabled no
\* login-screen request is ever sent.
C16_OffOnSymmetry ==
  /\ Count({"mute"}) <= 1
  /\ \A k \in 1..Len(calls) :
       /\ (calls[k].step = "mute" => calls[k].args = MuteRequest(TRUE))
       /\ (calls[k].step = "unmute" => calls[k].args = MuteRequest(FALSE))
  /\ (Count({"unmute"}) > 0 => Count({"mute"}) = 1)
  /\ (PastUnmute =>
        Len(SelectSeq(ResumeTrace, LAMBDA e : e.step = "unmute")) = Count({"mute"}))
  /\ \A k \in 1..Len(calls) :
       calls[k].step = "display_on" =>
         \E d \in 1..Len(DISPLAY_METHODS) :
           /\ Only({"display_off"}) =
                << Ev("display_off", DISPLAY_METHODS[d].function, DISPLAY_METHODS[d].args_off) >>
           /\ calls[k] =
                Ev("display_on", DISPLAY_METHODS[d].function, DISPLAY_METHODS[d].args_on)
  /\ (settings.mute \in {"false"} =>
        \A k \in 1..Len(Requests) : Requests[k].args[1] # "method=Application.SetMute")
  /\ (settings.logoff \in {"", "false"} =>
        \A k \in 1..Len(Requests) : Requests[k].args[1] # "method=GUI.ActivateWindow")
  /\ (settings.logoff = "true" /\ Count({"mute", "monitor"}) > 0 =>
        Count({"logoff"}) = 1)

\* C16 witness: a session with mute enabled and logoff disabled muted at
\* activation with the CEC builtin, and its resume unmuted and ran the same
\* entry's on-action.
C16_Witness ==
  /\ settings.mute = "true"
  /\ settings.logoff = "false"
  /\ fires = 1
  /\ pc = "done"
  /\ Count({"mute"}) = 1
  /\ Count({"unmute"}) = 1
  /\ Only({"display_off"}) = << Ev("display_off", "run_builtin", <<"CECStandby">>) >>
  /\ Only({"display_on"}) = << Ev("display_on", "run_builtin", <<"CECActivateSource">>) >>


\* A handler that has been entered runs to its end (the host calls it
\* synchronously and every command and remote call returns), and an
\* interpreter that is shutting down runs its atexit handlers.
FairSpec ==
  /\ Spec
  /\ WF_vars(Unmute)
  /\ WF_vars(DisplayOn)
  /\ WF_vars(ResumeExit)
  /\ WF_vars(AtExit)

\* The session is terminated: the monitor is removed and the dialog closed.
SessionTerminated == ~hasattr(self, "monitor") /\ closed

\* C17: once a deactivation event has been delivered the session
\* eventually is terminated, whether the display on-command succeeds or
\* fails; and a terminated session stays terminated and runs no further
\* step of activation.
C17_EventuallyTerminated ==
  /\ (fires >= 1) ~> SessionTerminated
  /\ [][SessionTerminated =>
          (SessionTerminated' /\ Count(ActivationSteps)' = Count(ActivationSteps))]_vars

\* C17 witness: the display on-command of a resume failed and the cleanup
\* registered at construction has terminated the session.
C17_Witness ==
  /\ fires = 1
  /\ pc = "terminated"
  /\ exitCode = {1}
  /\ Spawned[Len(Spawned)].step = "display_on"
  /\ SessionTerminated


AllUnset ==
  /\ settings.logoff = ""
  /\ settings.mute = ""
  /\ settings.display_method = << >>
  /\ settings.power_method = << >>

\* The calls that reach the host's control interface, its builtins or the
\* operating system.
HostVisible == SelectSeq(calls, LAMBDA e : e.fn \in {"jsonrpc", "run_builtin", "run_command"})

\* C18: with the four settings unset, onInit resolves both methods to the
\* entry at position 0, takes logoff as disabled and mute as enabled, and
\* never aborts; the calls that reach the host are then set-mute(true) from
\* activation followed by one set-mute(false) for each resume, and display
\* and system power stay as they were.
C18_Defaults ==
  AllUnset =>
    /\ pc # "aborted"
    /\ (pc # "idle" /\ self.logoff # "None" =>
          /\ self.display = DISPLAY_METHODS[1]
          /\ self.power = POWER_METHODS[1]
          /\ self.display.name = "do-nothing"
          /\ self.power.name = "do-nothing"
          /\ self.logoff = "false"
          /\ self.mute = "true")
    /\ \A k \in 1..Len(HostVisible) :
         HostVisible[k] = (IF k = 1 THEN Ev("mute", "jsonrpc", MuteRequest(TRUE))
                                    ELSE Ev("unmute", "jsonrpc", MuteRequest(FALSE)))
    /\ Len(HostVisible) <= 1 + fires
    /\ (pc \in {"monitor", "power_off", "active"} => Len(HostVisible) = 1)
    /\ (pc \in {"display_on", "resume_exit", "done"} => Len(HostVisible) = 1 + fires)
    /\ host.displayOn = pre.displayOn
    /\ host.power = "on"
    /\ (pc = "active" => host.muted)
    /\ (pc = "done" => ~host.muted)

\* C18 witness: a session with nothing configured has been activated and
\* resumed: one mute request and one unmute request were sent.
C18_Witness ==
  /\ AllUnset
  /\ fires = 1
  /\ pc = "done"
  /\ HostVisible = << Ev("mute", "jsonrpc", MuteRequest(TRUE)),
                      Ev("unmute", "jsonrpc", MuteRequest(FALSE)) >>

====
